---- MODULE Spec2Model ----
(***************************************************************************)
(* Review-and-versioning workflow of the knowledge app (src/knowledge).    *)
(*                                                                         *)
(* The database tables are the state: one KnowledgeResource row (the       *)
(* workflow of a resource never reads another resource), its               *)
(* KnowledgeResourceVersion rows, its ReviewStep ledger and its AIFlag     *)
(* rows.  Every view is a function from the row it read and the request    *)
(* to an outcome (HTTP code, the fields it saves, the rows it inserts).    *)
(* Spec runs each view as one step (requests that do not overlap).         *)
(* ConcSpec runs two requests at a time as PostgreSQL READ COMMITTED       *)
(* transactions: a view reads, computes, and its writes reach the tables   *)
(* when it commits.                                                        *)
(***************************************************************************)
EXTENDS Integers, Sequences, FiniteSets, TLC

VARIABLES
    resources,      \* KnowledgeResource table: the set of rows (0 or 1 row)
    versions,       \* KnowledgeResourceVersion table, in insertion order
    review_steps,   \* ReviewStep table, in insertion order (the ledger)
    ai_flags,       \* AIFlag table, in insertion order
    last,           \* the last request served by Spec and its response
    txn             \* ConcSpec: the two requests in flight

vars == <<resources, versions, review_steps, ai_flags, last, txn>>

tables == <<resources, versions, review_steps, ai_flags>>

----------------------------------------------------------------------------
(* Bounds of the exploration.                                              *)

MaxSteps == 4       \* Submitted and decision rows in the ledger

MaxPublishSteps == 2    \* Published and Unpublished rows in the ledger

MaxVersions == 2    \* number of versions at which no further upload starts

MaxConcSteps == 3   \* ConcSpec: ledger length at which no request starts

MaxConcVersions == 3    \* ConcSpec: versions at which no upload starts

MaxPublishRaceSteps == 6    \* PublishSpec: ledger length at which no publish starts

----------------------------------------------------------------------------
(* accounts.models                                                         *)

Role == {"EMPLOYEE", "CHAMPION", "OFFICER", "COUNCIL", "ADMIN"}

Region == {"GLOBAL", "EU", "APAC", "NA", "SA"}

NoRegion == "NULL"

\* The principals the identity provider hands over: (user_id, role, region).
User ==
    { [id |-> "emp",     role |-> "EMPLOYEE", region |-> "EU"],
      [id |-> "emp2",    role |-> "EMPLOYEE", region |-> NoRegion],
      [id |-> "champ",   role |-> "CHAMPION", region |-> "EU"],
      [id |-> "officer", role |-> "OFFICER",  region |-> NoRegion],
      [id |-> "council", role |-> "COUNCIL",  region |-> NoRegion],
      [id |-> "admin",   role |-> "ADMIN",    region |-> NoRegion] }

----------------------------------------------------------------------------
(* accounts.permissions                                                    *)

IsEmployee(user) == user \in User

IsChampion(user) == user \in User /\ user.role = "CHAMPION"

IsOfficer(user) == user \in User /\ user.role = "OFFICER"

IsAdminRole(user) == user \in User /\ user.role = "ADMIN"

IsGovCouncil(user) == user \in User /\ user.role = "COUNCIL"

IsReviewer(user) ==
    user \in User /\ user.role \in {"CHAMPION", "OFFICER", "ADMIN", "COUNCIL"}

----------------------------------------------------------------------------
(* knowledge.models                                                        *)

Status ==
    {"DRAFT", "PENDING_REVIEW", "FLAGGED", "APPROVED", "REJECTED",
     "PUBLISHED", "UNPUBLISHED", "CHANGE_REQUESTED"}

ReviewStage == {"CHAMPION", "REGIONAL_OFFICER", "GOV_COUNCIL"}

Decision ==
    {"SUBMITTED", "APPROVED", "REJECTED", "FLAGGED", "CHANGES_REQUESTED",
     "PUBLISHED", "UNPUBLISHED"}

\* A null foreign key to KnowledgeResourceVersion.  Within one resource a
\* version is identified by its version_number (positive), which is what
\* the foreign keys of this model hold.
NoVersion == 0

\* The primary key of the one resource.
ResourceId == 1

\* A ReviewStep row.
ReviewStep(version, stage, decision, reviewer) ==
    [version |-> version, stage |-> stage, decision |-> decision,
     reviewer |-> reviewer]

\* A KnowledgeResourceVersion row.
KnowledgeResourceVersion(version_number, created_by) ==
    [version_number |-> version_number, created_by |-> created_by]

\* An AIFlag row.
AIFlag(version, flag_type, severity) ==
    [version |-> version, flag_type |-> flag_type, severity |-> severity]

\* resource.versions.order_by("-version_number").first(): the greatest
\* version_number among the rows, NoVersion when there is none.
LatestNumber(vs) ==
    IF vs = <<>> THEN NoVersion
    ELSE CHOOSE n \in {vs[i].version_number : i \in 1..Len(vs)} :
            \A i \in 1..Len(vs) : vs[i].version_number <= n

----------------------------------------------------------------------------
(* Text.  A Python str is a sequence of one-character strings.             *)

\* str.lower() on the letters the requests of this model use.
LowerChar(c) ==
    CASE c = "A" -> "a"
      [] c = "D" -> "d"
      [] c = "F" -> "f"
      [] c = "R" -> "r"
      [] c = "T" -> "t"
      [] c = "V" -> "v"
      [] OTHER   -> c

lower(s) == [i \in 1..Len(s) |-> LowerChar(s[i])]

\* str.split(): the maximal runs of non-blank characters.
RECURSIVE SplitAcc(_, _)
SplitAcc(s, word) ==
    IF s = <<>> THEN (IF word = <<>> THEN <<>> ELSE <<word>>)
    ELSE IF Head(s) = " "
         THEN (IF word = <<>> THEN <<>> ELSE <<word>>) \o SplitAcc(Tail(s), <<>>)
         ELSE SplitAcc(Tail(s), Append(word, Head(s)))

split(s) == SplitAcc(s, <<>>)

\* " ".join(words)
RECURSIVE join(_)
join(words) ==
    IF words = <<>> THEN <<>>
    ELSE IF Len(words) = 1 THEN words[1]
    ELSE words[1] \o <<" ">> \o join(Tail(words))

\* str.strip(): without the leading and the trailing blanks.
RECURSIVE lstrip(_)
lstrip(s) == IF s # <<>> /\ Head(s) = " " THEN lstrip(Tail(s)) ELSE s

RECURSIVE rstrip(_)
rstrip(s) ==
    IF s # <<>> /\ s[Len(s)] = " " THEN rstrip(SubSeq(s, 1, Len(s) - 1)) ELSE s

strip(s) == rstrip(lstrip(s))

\* sub in s
Contains(s, sub) ==
    \E i \in 1..(Len(s) - Len(sub) + 1) : SubSeq(s, i, i + Len(sub) - 1) = sub

\* " ".join(str(t).strip().split()).lower(): the normal form of a tag.
Clean(t) == lower(join(split(strip(t))))

\* The normalized, non-empty tags of a list of raw tags; Tag.name is unique
\* and resource.tags is a many-to-many set, so the result is a set of names.
TagObjs(tags_list) ==
    { Clean(tags_list[i]) : i \in 1..Len(tags_list) } \ { <<>> }

\* An optional request field is the empty set (absent) or a singleton.
Absent == {}

Given(field) == field # {}

Val(field) == CHOOSE v \in field : TRUE

\* The text of a "metadata" form field and the JSON value it parses to:
\* k = "empty" (the empty text), "json" (an object with these keys),
\* "badjson" (JSONDecodeError) or "nondict" (a JSON number other than 0).
\* The metadata column holds a parsed value: MetaJson(keys) or MetaNonDict.
MetaEmpty == [k |-> "empty", keys |-> {}]

MetaJson(keys) == [k |-> "json", keys |-> keys]

MetaBadJson == [k |-> "badjson", keys |-> {}]

MetaNonDict == [k |-> "nondict", keys |-> {}]

----------------------------------------------------------------------------
(* knowledge.ai_stub                                                       *)

SeqIf(cond, x) == IF cond THEN <<x>> ELSE <<>>

\* Mutant: the flags are created without their version.
FlagVersion_none(resource, version) == NoVersion

\* version = version or getattr(resource, "latest_version", None)
FlagVersion(resource, version) ==
    IF version # NoVersion THEN version ELSE resource.latest_version

\* "confidentiality" not in meta raises TypeError when meta is a number.
AiCheckRaises(resource) == resource.metadata.k = "nondict"

\* The rows run_ai_check creates for the resource and version.
run_ai_check(resource, version) ==
    LET v     == FlagVersion(resource, version)
        title == lower(resource.title)
        desc  == strip(resource.description)
        meta  == resource.metadata.keys
    IN  SeqIf(Contains(title, <<"d","r","a","f","t">>) \/ Contains(title, <<"v","0">>),
              AIFlag(v, "OUTDATED", "HIGH"))
        \o SeqIf(resource.tags = {}, AIFlag(v, "METADATA", "MEDIUM"))
        \o SeqIf("confidentiality" \notin meta, AIFlag(v, "METADATA", "HIGH"))
        \o SeqIf(0 < Len(desc) /\ Len(desc) < 30, AIFlag(v, "QUALITY", "LOW"))

----------------------------------------------------------------------------
(* Outcomes of a view.                                                     *)

\* A KnowledgeResource row with the defaults of the model's fields.
Blank ==
    [id |-> ResourceId, title |-> <<>>, description |-> <<>>,
     status |-> "DRAFT", current_stage |-> "CHAMPION",
     submitted_version |-> NoVersion, region |-> "GLOBAL",
     uploaded_by |-> "NULL", tags |-> {}, metadata |-> MetaJson({}),
     latest_version |-> NoVersion]

\* What a view did: the response (code, detail), the local object obj and
\* the fields of it that were saved (update_fields; "tags" stands for
\* resource.tags.set), the row it created, and the Version, ReviewStep and
\* AIFlag rows it inserted.
Outcome(code, detail, obj, fields, insert, steps, flags) ==
    [code |-> code, detail |-> detail, obj |-> obj, fields |-> fields,
     create |-> FALSE, insert |-> insert, steps |-> steps, flags |-> flags]

\* A response that wrote nothing.
Fail(code, detail) == Outcome(code, detail, Blank, {}, <<>>, <<>>, <<>>)

\* get_object_or_404(KnowledgeResource, id=resource_id)
Found(rows) == rows # {}

Get(rows) == CHOOSE r \in rows : TRUE

\* Mutant: the row is looked up by its id alone.
Owned_any(rows, user) == Found(rows)

\* get_object_or_404(KnowledgeResource, id=resource_id,
\* uploaded_by=request.user) finds a row.
Owned(rows, user) == Found(rows) /\ Get(rows).uploaded_by = user.id

\* Model.save(update_fields=fields): only the named columns are written.
Save(row, obj, fields) ==
    [f \in DOMAIN row |-> IF f \in fields THEN obj[f] ELSE row[f]]

----------------------------------------------------------------------------
(* knowledge.views.SubmitForReviewView                                     *)

\* The statuses the view refuses first.
SubmitRefused == {"APPROVED", "PUBLISHED"}

SubmitForReview(rows, user) ==
    IF ~IsEmployee(user) THEN Fail(403, "permission_denied")
    ELSE IF ~Owned(rows, user)
    THEN Fail(404, "not_found")
    ELSE LET resource == Get(rows) IN
    IF resource.status \in SubmitRefused
    THEN Fail(400, "Cannot submit approved/published resources.")
    ELSE IF resource.status = "PENDING_REVIEW"
    THEN Fail(400, "Already submitted for review.")
    ELSE IF resource.latest_version = NoVersion
    THEN Fail(400, "No file version uploaded yet. Upload a version first.")
    ELSE
    LET obj == [resource EXCEPT !.submitted_version = resource.latest_version,
                                !.status = "PENDING_REVIEW",
                                !.current_stage = "CHAMPION"]
    IN  IF AiCheckRaises(obj)
        THEN \* the exception leaves the atomic block: the save and the
             \* Submitted step are rolled back
             Fail(500, "TypeError")
        ELSE
        Outcome(200, "Submitted for review.", obj,
                {"submitted_version", "status", "current_stage"},
                <<>>,
                <<ReviewStep(obj.submitted_version, "CHAMPION", "SUBMITTED", user.id)>>,
                run_ai_check(obj, obj.submitted_version))

----------------------------------------------------------------------------
(* knowledge.views.ReviewQueueView                                         *)

\* Mutant: the queue is not limited by region.
RegionVisible_any(user, resource) == TRUE

\* The region filter for a Champion or an Officer: the user's region or
\* GLOBAL; only GLOBAL when the user has no region.
RegionVisible(user, resource) ==
    IF user.region # NoRegion
    THEN resource.region = user.region \/ resource.region = "GLOBAL"
    ELSE resource.region = "GLOBAL"

\* The response of the queue view: its code and the ids of the rows of
\* its queryset.
ReviewQueue(rows, user) ==
    IF ~IsReviewer(user) THEN [code |-> 403, queue |-> {}]
    ELSE IF ~(IsChampion(user) \/ IsOfficer(user) \/ IsGovCouncil(user)
              \/ IsAdminRole(user))
    THEN [code |-> 403, queue |-> {}]
    ELSE
    LET stage == IF IsChampion(user) THEN "CHAMPION"
                 ELSE IF IsOfficer(user) THEN "REGIONAL_OFFICER"
                 ELSE "GOV_COUNCIL"
        limit_by_region == IsChampion(user) \/ IsOfficer(user)
        qs == { r \in rows : /\ r.status = "PENDING_REVIEW"
                             /\ r.current_stage = stage
                             /\ limit_by_region => RegionVisible(user, r) }
    IN  [code |-> 200, queue |-> { r.id : r \in qs }]

----------------------------------------------------------------------------
(* knowledge.views.ReviewDecisionView                                      *)

\* ReviewDecisionSerializer.decision: the choices the serializer accepts.
DecisionChoices == {"APPROVED", "REJECTED", "FLAGGED", "CHANGES_REQUESTED"}

\* Mutant: the Admin role is let through at the GovCouncil stage.
StageAllows_admin(stage, user) ==
    /\ ~(stage = "CHAMPION" /\ ~IsChampion(user))
    /\ ~(stage = "REGIONAL_OFFICER" /\ ~IsOfficer(user))
    /\ ~(stage = "GOV_COUNCIL" /\ ~(IsGovCouncil(user) \/ IsAdminRole(user)))

\* The three role checks of the view: the reviewer's role is the one of the
\* stage.
StageAllows(stage, user) ==
    /\ ~(stage = "CHAMPION" /\ ~IsChampion(user))
    /\ ~(stage = "REGIONAL_OFFICER" /\ ~IsOfficer(user))
    /\ ~(stage = "GOV_COUNCIL" /\ ~IsGovCouncil(user))

\* Mutant: a changes-requested decision stores CHANGE_REQUESTED.
ClosedStatus_named(decision) ==
    CASE decision = "REJECTED" -> "REJECTED"
      [] decision = "FLAGGED" -> "FLAGGED"
      [] decision = "CHANGES_REQUESTED" -> "CHANGE_REQUESTED"

\* The status a closing decision stores.
ClosedStatus(decision) ==
    CASE decision = "REJECTED" -> "REJECTED"
      [] decision = "FLAGGED" -> "FLAGGED"
      [] decision = "CHANGES_REQUESTED" -> "DRAFT"

\* Mutant: the Champion's approval sends the resource to the Council.
ApplyDecision_skip(resource, stage, decision) ==
    IF decision \in {"REJECTED", "FLAGGED", "CHANGES_REQUESTED"}
    THEN [obj |-> [resource EXCEPT !.status = ClosedStatus(decision),
                                   !.submitted_version = NoVersion],
          fields |-> {"status", "submitted_version"}, code |-> 200,
          detail |-> "closed"]
    ELSE IF stage \in {"CHAMPION", "REGIONAL_OFFICER"}
    THEN [obj |-> [resource EXCEPT !.current_stage = "GOV_COUNCIL"],
          fields |-> {"current_stage"}, code |-> 200,
          detail |-> "Approved. Sent to Governance Council stage."]
    ELSE [obj |-> [resource EXCEPT !.status = "APPROVED"],
          fields |-> {"status"}, code |-> 200,
          detail |-> "Approved by Governance Council. Resource approved."]

\* The state transition of an accepted decision at a stage: the local
\* object, the fields saved and the response.
ApplyDecision(resource, stage, decision) ==
    IF decision \in {"REJECTED", "FLAGGED", "CHANGES_REQUESTED"}
    THEN [obj |-> [resource EXCEPT !.status = ClosedStatus(decision),
                                   !.submitted_version = NoVersion],
          fields |-> {"status", "submitted_version"},
          code |-> 200,
          detail |-> CASE decision = "REJECTED" -> "Resource rejected."
                       [] decision = "FLAGGED" -> "Resource flagged."
                       [] OTHER -> "Changes requested. Sent back to draft."]
    ELSE IF stage = "CHAMPION"
    THEN [obj |-> [resource EXCEPT !.current_stage = "REGIONAL_OFFICER"],
          fields |-> {"current_stage"}, code |-> 200,
          detail |-> "Approved. Sent to Officer stage."]
    ELSE IF stage = "REGIONAL_OFFICER"
    THEN [obj |-> [resource EXCEPT !.current_stage = "GOV_COUNCIL"],
          fields |-> {"current_stage"}, code |-> 200,
          detail |-> "Approved. Sent to Governance Council stage."]
    ELSE IF stage = "GOV_COUNCIL"
    THEN [obj |-> [resource EXCEPT !.status = "APPROVED"],
          fields |-> {"status"}, code |-> 200,
          detail |-> "Approved by Governance Council. Resource approved."]
    ELSE [obj |-> resource, fields |-> {}, code |-> 400,
          detail |-> "Unhandled stage."]

ReviewDecision(rows, user, decision) ==
    IF ~IsReviewer(user) THEN Fail(403, "permission_denied")
    ELSE IF ~Found(rows) THEN Fail(404, "not_found")
    ELSE LET resource == Get(rows)
             stage    == resource.current_stage IN
    IF resource.status # "PENDING_REVIEW"
    THEN Fail(400, "Resource is not pending review.")
    ELSE IF decision \notin DecisionChoices
    THEN Fail(400, "invalid_choice")
    ELSE IF stage = "CHAMPION" /\ ~StageAllows(stage, user)
    THEN Fail(403, "Only Champions can review at this stage.")
    ELSE IF stage = "REGIONAL_OFFICER" /\ ~StageAllows(stage, user)
    THEN Fail(403, "Only Officers can review at this stage.")
    ELSE IF stage = "GOV_COUNCIL" /\ ~StageAllows(stage, user)
    THEN Fail(403, "Only Admin (Gov Council) can review at this stage.")
    ELSE IF resource.submitted_version = NoVersion
    THEN Fail(400, "No submitted_version found for this review. Submit the resource again.")
    ELSE
    LET t == ApplyDecision(resource, stage, decision)
    IN  Outcome(t.code, t.detail, t.obj, t.fields, <<>>,
                <<ReviewStep(resource.submitted_version, stage, decision, user.id)>>,
                <<>>)

----------------------------------------------------------------------------
(* Requests that carry a multipart form (create, upload new version).      *)

\* A value of the form key "tags": its text s, and how json.loads takes a
\* text that starts with "[": k = "json" (a list, items) or "badjson"
\* (JSONDecodeError); k = "str" for a text that does not start with "[".
TagText(s) == [k |-> "str", s |-> s, items |-> <<>>]

TagJson(s, items) == [k |-> "json", s |-> s, items |-> items]

TagBadJson(s) == [k |-> "badjson", s |-> s, items |-> <<>>]

\* s.split(","): the pieces between the commas.
RECURSIVE SplitCommaAcc(_, _)
SplitCommaAcc(s, piece) ==
    IF s = <<>> THEN <<piece>>
    ELSE IF Head(s) = ","
         THEN <<piece>> \o SplitCommaAcc(Tail(s), <<>>)
         ELSE SplitCommaAcc(Tail(s), Append(piece, Head(s)))

\* [t.strip() for t in s.split(",") if t.strip()]
CommaList(s) ==
    LET pieces == SplitCommaAcc(s, <<>>)
    IN  SelectSeq([i \in 1..Len(pieces) |-> strip(pieces[i])],
                  LAMBDA t : t # <<>>)

\* UploadNewVersionView._parse_tags_from_request on the values of "tags":
\* the list of raw tags, or ok = FALSE for the ValueError.
ParseTagsFromRequest(vals) ==
    IF Len(vals) > 1
    THEN [ok |-> TRUE, list |-> [i \in 1..Len(vals) |-> vals[i].s]]
    ELSE IF vals = <<>> \/ vals[Len(vals)].s = <<>>
    THEN [ok |-> TRUE, list |-> <<>>]
    ELSE LET raw == vals[Len(vals)] IN
         IF raw.k = "badjson" THEN [ok |-> FALSE, list |-> <<>>]
         ELSE IF raw.k = "json" THEN [ok |-> TRUE, list |-> raw.items]
         ELSE [ok |-> TRUE, list |-> CommaList(strip(raw.s))]

\* The tag handling of KnowledgeResourceCreateSerializer.create on the
\* validated CharField "tags" (the last value of the key, "" by default).
CreateTagsList(vals) ==
    IF vals = <<>> THEN <<>>
    ELSE LET raw == vals[Len(vals)] IN
         IF raw.k = "json" THEN raw.items
         ELSE IF raw.k = "badjson" THEN <<strip(raw.s)>>
         ELSE CommaList(strip(raw.s))

\* A form: file is "absent", "ok" or "unstorable" (the blob store raises);
\* title, description, region and metadata are optional; metadata is the
\* text sent (MetaEmpty, MetaJson, MetaBadJson or MetaNonDict).
Form(file, title, description, region, metadata, tags) ==
    [file |-> file, title |-> title, description |-> description,
     region |-> region, metadata |-> metadata, tags |-> tags]

NoForm == Form("absent", Absent, Absent, Absent, Absent, <<>>)

----------------------------------------------------------------------------
(* knowledge.views.KnowledgeResourceUploadView and                         *)
(* knowledge.serializers.KnowledgeResourceCreateSerializer.create          *)

\* The view runs outside any transaction: each statement commits on its
\* own, so the resource row stays when the creation of v1 raises.  The
\* serializer's character fields trim the title and the description.
KnowledgeResourceUpload(user, req) ==
    IF ~IsEmployee(user) THEN Fail(403, "permission_denied")
    ELSE IF ~Given(req.title) \/ req.file = "absent"
    THEN Fail(400, "This field is required.")
    ELSE IF strip(Val(req.title)) = <<>>
    THEN Fail(400, "This field may not be blank.")
    ELSE IF Given(req.metadata) /\ Val(req.metadata).k \in {"badjson", "empty"}
    THEN Fail(400, "Value must be valid JSON.")
    ELSE IF user.region = NoRegion
    THEN Fail(400, "Your profile does not have a region configured.")
    ELSE
    LET resource ==
            [Blank EXCEPT
                !.uploaded_by = user.id,
                !.metadata = IF Given(req.metadata) THEN Val(req.metadata)
                             ELSE MetaJson({}),
                !.region = user.region,
                !.title = strip(Val(req.title)),
                !.description = IF Given(req.description)
                                THEN strip(Val(req.description)) ELSE <<>>,
                !.tags = TagObjs(CreateTagsList(req.tags))]
    IN  IF req.file = "unstorable"
        THEN [Outcome(500, "storage_error", resource, {}, <<>>, <<>>, <<>>)
                EXCEPT !.create = TRUE]
        ELSE [Outcome(201, "created", [resource EXCEPT !.latest_version = 1], {},
                      <<KnowledgeResourceVersion(1, user.id)>>, <<>>, <<>>)
                EXCEPT !.create = TRUE]

----------------------------------------------------------------------------
(* knowledge.views.UploadNewVersionView                                    *)

IsAuthenticated(user) == user \in User

\* The statuses from which a new version may be uploaded.
UploadableStatus ==
    {"DRAFT", "REJECTED", "FLAGGED", "APPROVED", "CHANGE_REQUESTED"}

\* next_number = 1 if not latest else latest.version_number + 1
NextNumber(vs) ==
    IF LatestNumber(vs) = NoVersion THEN 1 ELSE LatestNumber(vs) + 1

\* 1) the optional updates of title, description, region and metadata on
\* the local object, and the update_fields they add.
FieldUpdates(resource, req) ==
    LET r1 == IF Given(req.title)
              THEN [resource EXCEPT !.title = Val(req.title)] ELSE resource
        r2 == IF Given(req.description)
              THEN [r1 EXCEPT !.description = Val(req.description)] ELSE r1
        r3 == IF Given(req.region)
              THEN [r2 EXCEPT !.region = Val(req.region)] ELSE r2
        r4 == IF Given(req.metadata)
              THEN [r3 EXCEPT !.metadata = MetaJson(Val(req.metadata).keys)]
              ELSE r3
    IN  [obj |-> r4,
         fields |-> (IF Given(req.title) THEN {"title"} ELSE {})
                    \cup (IF Given(req.description) THEN {"description"} ELSE {})
                    \cup (IF Given(req.region) THEN {"region"} ELSE {})
                    \cup (IF Given(req.metadata) THEN {"metadata"} ELSE {})]

\* Mutant: the stage the previous version reached is kept.
ResetPointers_keep(obj, next_number) ==
    [obj EXCEPT !.latest_version = next_number,
                !.status = "DRAFT",
                !.submitted_version = NoVersion]

\* 5) the pointers and the status of the local object after the upload.
ResetPointers(obj, next_number) ==
    [obj EXCEPT !.current_stage = "CHAMPION",
                !.latest_version = next_number,
                !.status = "DRAFT",
                !.submitted_version = NoVersion]

\* vs are the version rows the view's query sees.
UploadNewVersion(rows, vs, user, req) ==
    IF ~IsAuthenticated(user) THEN Fail(403, "permission_denied")
    ELSE IF ~Owned(rows, user)
    THEN Fail(404, "not_found")
    ELSE LET resource == Get(rows) IN
    IF resource.status \notin UploadableStatus
    THEN Fail(400, "Cannot upload a new version while resource is in review/published.")
    ELSE IF Given(req.region) /\ Val(req.region) \notin Region
    THEN Fail(400, "Invalid region.")
    ELSE IF Given(req.metadata) /\ Val(req.metadata).k = "badjson"
    THEN Fail(400, "metadata must be valid JSON (use double quotes).")
    ELSE IF Given(req.metadata) /\ Val(req.metadata).k = "nondict"
    THEN Fail(400, "metadata JSON must be an object.")
    ELSE IF req.file = "absent"
    THEN Fail(400, "file is required.")
    ELSE IF req.file = "unstorable"
    THEN Fail(500, "storage_error")
    ELSE
    LET upd         == FieldUpdates(resource, req)
        next_number == NextNumber(vs)
        new_version == KnowledgeResourceVersion(next_number, user.id)
        tags        == ParseTagsFromRequest(req.tags)
    IN  IF ~tags.ok
        THEN \* the response is returned inside the atomic block: the
             \* version row inserted above is committed
             Outcome(400, "tags must be a valid JSON list or comma-separated string.",
                     upd.obj, {}, <<new_version>>, <<>>, <<>>)
        ELSE Outcome(201, "Uploaded version.",
                     ResetPointers([upd.obj EXCEPT !.tags = TagObjs(tags.list)],
                                   next_number),
                     upd.fields \cup {"tags", "latest_version", "status",
                                      "submitted_version", "current_stage"},
                     <<new_version>>, <<>>, <<>>)

----------------------------------------------------------------------------
(* knowledge.views.PublishResourceView                                     *)

\* permission_classes = [IsEmployee, IsGovCouncil]: every class must pass.
PublishPermission(user) == IsEmployee(user) /\ IsGovCouncil(user)

\* The statuses from which the view publishes.
PublishableStatus == {"APPROVED", "UNPUBLISHED"}

PublishResource(rows, user) ==
    IF ~PublishPermission(user) THEN Fail(403, "permission_denied")
    ELSE IF ~Found(rows) THEN Fail(404, "not_found")
    ELSE LET resource == Get(rows) IN
    IF resource.uploaded_by # user.id /\ user.role # "COUNCIL"
    THEN Fail(403, "Only the uploader or Council can publish this resource.")
    ELSE IF resource.status \notin PublishableStatus
    THEN Fail(400, "Only APPROVED resources and unpublished can be published.")
    ELSE Outcome(200, "Resource published.",
                 [resource EXCEPT !.status = "PUBLISHED"], {"status"}, <<>>,
                 <<ReviewStep(resource.latest_version, resource.current_stage,
                              "PUBLISHED", user.id)>>,
                 <<>>)

----------------------------------------------------------------------------
(* knowledge.views.UnpublishResourceView                                   *)

\* permission_classes = [IsGovCouncil]
UnpublishPermission(user) == IsGovCouncil(user)

UnpublishResource(rows, user) ==
    IF ~UnpublishPermission(user) THEN Fail(403, "permission_denied")
    ELSE IF ~(IsGovCouncil(user) \/ IsAdminRole(user))
    THEN Fail(403, "Only Governance Council or Admin can unpublish.")
    ELSE IF ~Found(rows) THEN Fail(404, "not_found")
    ELSE LET resource == Get(rows) IN
    IF resource.status # "PUBLISHED"
    THEN Fail(400, "Only PUBLISHED resources can be unpublished.")
    ELSE Outcome(200, "Resource unpublished.",
                 [resource EXCEPT !.status = "UNPUBLISHED"], {"status"}, <<>>,
                 <<ReviewStep(resource.latest_version, resource.current_stage,
                              "UNPUBLISHED", user.id)>>,
                 <<>>)

----------------------------------------------------------------------------
(* knowledge.views.KnowledgeResourceDetailView.delete                      *)

\* Mutant: the uploader may delete whatever their role.
DeleteAllowed_uploader(resource, user) == resource.uploaded_by = user.id

\* "Must be uploader AND employee"
DeleteAllowed(resource, user) ==
    resource.uploaded_by = user.id /\ user.role = "EMPLOYEE"

\* The statuses in which the view refuses to delete.
DeleteRefused == {"PENDING_REVIEW", "APPROVED", "PUBLISHED"}

\* The response of the delete view, and whether resource.delete() ran.
KnowledgeResourceDelete(rows, user) ==
    IF ~IsAuthenticated(user)
    THEN [code |-> 403, detail |-> "permission_denied", delete |-> FALSE]
    ELSE IF ~Found(rows)
    THEN [code |-> 404, detail |-> "not_found", delete |-> FALSE]
    ELSE LET resource == Get(rows) IN
    IF ~DeleteAllowed(resource, user)
    THEN [code |-> 403,
          detail |-> "Only the employee who uploaded this resource can delete it.",
          delete |-> FALSE]
    ELSE IF resource.status \in DeleteRefused
    THEN [code |-> 400,
          detail |-> "You cannot delete a resource that is under review or already approved/published.",
          delete |-> FALSE]
    ELSE [code |-> 204, detail |-> "deleted", delete |-> TRUE]

----------------------------------------------------------------------------
(* The requests the exploration sends.                                     *)

TitlePlain == <<"F", "A", "Q">>

TitleDraft == <<"D", "r", "a", "f", "t">>

\* Forms sent to the create view.
CreateForms ==
    { Form("ok", {TitleDraft}, {<<"x">>}, {"NA"}, Absent, <<>>),
      Form("ok", {TitlePlain}, Absent, Absent, {MetaNonDict}, <<>>),
      Form("unstorable", {TitlePlain}, Absent, Absent, Absent, <<>>),
      Form("absent", {TitlePlain}, Absent, Absent, Absent, <<>>) }

\* Forms sent to the upload-new-version view.
UploadForms ==
    { Form("ok", Absent, Absent, Absent, Absent, <<>>),
      Form("absent", Absent, Absent, Absent, Absent, <<>>),
      Form("ok", Absent, Absent, Absent, Absent, <<TagBadJson(<<"[", "a">>)>>),
      Form("ok", {TitlePlain}, Absent, {"NA"}, {MetaJson({"confidentiality"})},
           <<TagText(<<" ", "A", " ", " ", "T", ",", "r">>)>>),
      Form("ok", Absent, Absent, {"GLOBAL"}, Absent, <<>>),
      Form("ok", Absent, Absent, {"MARS"}, Absent, <<>>) }

\* The users who send the create request: the employees, one with a region
\* in the profile and one without.
Creators == { user \in User : user.role = "EMPLOYEE" }

\* Decisions sent to the decision view: the serializer's choices and one
\* value it rejects.
DecisionInputs == DecisionChoices \cup {"PUBLISHED"}

----------------------------------------------------------------------------
(* Writing an outcome to the tables.                                       *)

\* Mutant: no unique index on (resource, version_number).
UniqueTogether_off(vs, row) == TRUE

\* unique_together = [("resource", "version_number")]
UniqueTogether(vs, row) ==
    \A i \in 1..Len(vs) : vs[i].version_number # row.version_number

\* The rows of the resource table after the outcome's writes.
WriteResource(rows, out) ==
    IF out.create THEN {out.obj}
    ELSE IF out.fields = {} \/ rows = {} THEN rows
    ELSE {Save(Get(rows), out.obj, out.fields)}

\* The outcome as it ends when its inserts meet the version rows vs: a
\* duplicate (resource, version_number) raises IntegrityError, which leaves
\* the atomic block by exception and rolls everything back.
Constrained(vs, out) ==
    IF out.insert # <<>> /\ ~UniqueTogether(vs, out.insert[1])
    THEN Fail(500, "IntegrityError")
    ELSE out

\* Mutant: a new version row takes the place of the earlier ones.
Write_overwrite(out) ==
    /\ resources' = WriteResource(resources, out)
    /\ versions' = IF out.insert # <<>> THEN out.insert ELSE versions
    /\ review_steps' = review_steps \o out.steps
    /\ ai_flags' = ai_flags \o out.flags

\* The writes of an outcome: the saved fields of the resource row, and the
\* inserted rows after those the tables hold (objects.create).
Write(out) ==
    /\ resources' = WriteResource(resources, out)
    /\ versions' = versions \o out.insert
    /\ review_steps' = review_steps \o out.steps
    /\ ai_flags' = ai_flags \o out.flags

\* The rows of the ledger that publish and unpublish wrote.
PublishRows(steps) ==
    SelectSeq(steps, LAMBDA st : st.decision \in {"PUBLISHED", "UNPUBLISHED"})

\* The exploration stops growing the tables at the bounds.
WithinBounds(out) ==
    LET steps == review_steps \o out.steps
    IN  /\ Len(steps) - Len(PublishRows(steps)) <= MaxSteps
        /\ Len(PublishRows(steps)) <= MaxPublishSteps
        /\ Len(versions) + Len(out.insert) <= MaxVersions

----------------------------------------------------------------------------
(* Spec: requests do not overlap.  A request is served as one step, which  *)
(* leaves the request and its response in last; the next request is served *)
(* once the response is delivered.                                         *)

\* queue holds the ids that the queue view returned.
Request(op, user, decision, req, out) ==
    [op |-> op, user |-> user, decision |-> decision, req |-> req,
     code |-> out.code, detail |-> out.detail, queue |-> {}]

NoRequest == Request("none", "NULL", "NULL", NoForm, Fail(0, "NULL"))

IdleTxn == [pc |-> "idle"]

Txns == {1, 2}

Init ==
    /\ resources = {}
    /\ versions = <<>>
    /\ review_steps = <<>>
    /\ ai_flags = <<>>
    /\ last = NoRequest
    /\ txn = [t \in Txns |-> IdleTxn]

Serve(op, user, decision, req, computed) ==
    /\ last = NoRequest
    /\ \E out \in {Constrained(versions, computed)} :
        /\ WithinBounds(out)
        /\ Write(out)
        /\ last' = Request(op, user.id, decision, req, out)
        /\ UNCHANGED txn

Create ==
    \E user \in Creators, req \in CreateForms :
        /\ resources = {}
        /\ Serve("create", user, "NULL", req, KnowledgeResourceUpload(user, req))

Submit ==
    \E user \in User :
        Serve("submit", user, "NULL", NoForm, SubmitForReview(resources, user))

Decide ==
    \E user \in User, decision \in DecisionInputs :
        Serve("decide", user, decision, NoForm,
              ReviewDecision(resources, user, decision))

UploadVersion ==
    \E user \in User, req \in UploadForms :
        Serve("upload", user, "NULL", req,
              UploadNewVersion(resources, versions, user, req))

Publish ==
    \E user \in User :
        Serve("publish", user, "NULL", NoForm, PublishResource(resources, user))

Unpublish ==
    \E user \in User :
        Serve("unpublish", user, "NULL", NoForm, UnpublishResource(resources, user))

\* GET of the review queue.
Queue ==
    \E user \in User :
        /\ last = NoRequest
        /\ \E out \in {ReviewQueue(resources, user)} :
              last' = [Request("queue", user.id, "NULL", NoForm,
                               Fail(out.code, "queue"))
                          EXCEPT !.queue = out.queue]
        /\ UNCHANGED <<tables, txn>>

Respond ==
    /\ last # NoRequest
    /\ last' = NoRequest
    /\ UNCHANGED <<tables, txn>>

Next ==
    \/ Create
    \/ Submit
    \/ Decide
    \/ UploadVersion
    \/ Publish
    \/ Unpublish
    \/ Queue
    \/ Respond

Spec == Init /\ [][Next]_vars

----------------------------------------------------------------------------
(* FlagSpec: the flag generator on varied content.  Resources are created  *)
(* with the titles, descriptions, tags and metadata below, the uploader    *)
(* may replace the description by an untrimmed one, and the resource is    *)
(* submitted.                                                              *)

TitleV0 == <<"R", "e", "V", "0">>

\* A text of n characters "x".
Xs(n) == [i \in 1..n |-> "x"]

\* The text s between two blanks.
Padded(s) == <<" ">> \o s \o <<" ">>

FlagTitles == {TitlePlain, TitleDraft, TitleV0}

FlagDescriptions == {Xs(1), Xs(29), Xs(30)}

FlagMetadata ==
    {MetaJson({}), MetaJson({"confidentiality"}), MetaJson({"owner"}),
     MetaNonDict}

FlagTags == {<<>>, <<TagText(<<"a">>)>>}

FlagCreateForms ==
    { Form("ok", {title}, description, Absent, {metadata}, tags) :
        title \in FlagTitles,
        description \in {Absent} \cup {{d} : d \in FlagDescriptions},
        metadata \in FlagMetadata,
        tags \in FlagTags }

FlagUploadForms ==
    { Form("ok", Absent, {description}, Absent, Absent, <<>>) :
        description \in {<<" ", " ">>, Padded(Xs(29)), Padded(Xs(30))} }

FlagCreate ==
    \E user \in Creators, req \in FlagCreateForms :
        /\ resources = {}
        /\ Serve("create", user, "NULL", req, KnowledgeResourceUpload(user, req))

FlagUpload ==
    \E user \in Creators, req \in FlagUploadForms :
        Serve("upload", user, "NULL", req,
              UploadNewVersion(resources, versions, user, req))

FlagSubmit ==
    \E user \in Creators :
        Serve("submit", user, "NULL", NoForm, SubmitForReview(resources, user))

FlagNext ==
    \/ FlagCreate
    \/ FlagUpload
    \/ FlagSubmit
    \/ Respond

FlagSpec == Init /\ [][FlagNext]_vars

----------------------------------------------------------------------------
(* DeleteSpec: the delete view.  Resources are created by an Employee and  *)
(* by a Champion, taken through the review, published and unpublished,     *)
(* and anyone may ask for the deletion at any point.                       *)

\* The users whose create request succeeds: those with a region.
DeleteCreators == { user \in User : user.region # NoRegion }

DeleteCreateForms == { Form("ok", {TitlePlain}, Absent, Absent, Absent, <<>>) }

DeleteCreate ==
    \E user \in DeleteCreators, req \in DeleteCreateForms :
        /\ resources = {}
        /\ Serve("create", user, "NULL", req, KnowledgeResourceUpload(user, req))

\* resource.delete(): the rows that refer to the resource (versions,
\* review steps, flags: on_delete = CASCADE) go with it.
Delete ==
    \E user \in User :
        /\ last = NoRequest
        /\ \E out \in {KnowledgeResourceDelete(resources, user)} :
            /\ IF out.delete
               THEN /\ resources' = {}
                    /\ versions' = <<>>
                    /\ review_steps' = <<>>
                    /\ ai_flags' = <<>>
               ELSE UNCHANGED tables
            /\ last' = Request("delete", user.id, "NULL", NoForm,
                               Fail(out.code, out.detail))
        /\ UNCHANGED txn

DeleteNext ==
    \/ DeleteCreate
    \/ Submit
    \/ Decide
    \/ Publish
    \/ Unpublish
    \/ Delete
    \/ Respond

DeleteSpec == Init /\ [][DeleteNext]_vars

----------------------------------------------------------------------------
(* ConcSpec: two requests at a time.  The database is PostgreSQL           *)
(* (settings: django.db.backends.postgresql) at its default isolation      *)
(* level, READ COMMITTED, and no view takes a row lock                     *)
(* (select_for_update): a view under @transaction.atomic reads committed   *)
(* rows, computes on its local object, and its writes become visible to    *)
(* the other request when it commits.  A request whose guards fail writes  *)
(* nothing and is not tracked.                                             *)

\* The outcome writes to some table.
Writes(out) ==
    out.create \/ out.fields # {} \/ out.insert # <<>> \/ out.steps # <<>>
    \/ out.flags # <<>>

\* A request in flight: the row it read (snap), the length of the ledger
\* when it read (seen), and the writes it has computed (out).
Started(op, user, decision, req, out) ==
    [pc |-> "ready", op |-> op, user |-> user, decision |-> decision,
     req |-> req, snap |-> resources, seen |-> Len(review_steps), out |-> out]

\* A request that was answered: its response.
Answered(t, out) ==
    [pc |-> "done", op |-> txn[t].op, user |-> txn[t].user.id,
     seen |-> txn[t].seen, code |-> out.code, detail |-> out.detail]

\* The ledger rows that the requests in flight are about to insert.
PendingSteps ==
    LET n(t) == IF txn[t].pc \in {"ready", "begun", "insert"}
                THEN Len(txn[t].out.steps) ELSE 0
    IN  n(1) + n(2)

\* The version rows that the requests in flight are about to insert.
PendingVersions ==
    LET n(t) == IF txn[t].pc \in {"ready", "begun", "insert", "row"}
                THEN Len(txn[t].out.insert) ELSE 0
    IN  n(1) + n(2)

\* The second slot is used only while the first is occupied (the two slots
\* are interchangeable), and a request starts once the responses of the
\* requests that ended have been delivered.
Free(t) ==
    /\ txn[t].pc = "idle"
    /\ t = 1 \/ txn[1].pc # "idle"
    /\ \A u \in Txns : txn[u].pc # "done"

\* Forms sent to the upload view under ConcSpec.
ConcUploadForms ==
    { req \in UploadForms : req.title = Absent /\ req.region = Absent }

\* The decisions sent to the decision view under ConcSpec: the one that
\* advances the stage and one that closes the review.
ConcDecisions == {"APPROVED", "REJECTED"}

\* The submit or the decision view reads the row and computes its writes.
TxnBegin(t) ==
    /\ Free(t)
    /\ \E user \in User :
         \/ \E out \in {SubmitForReview(resources, user)} :
              /\ Writes(out)
              /\ Len(review_steps) + PendingSteps + Len(out.steps) <= MaxConcSteps
              /\ txn' = [txn EXCEPT ![t] = Started("submit", user, "NULL", NoForm, out)]
         \/ \E decision \in ConcDecisions :
              \E out \in {ReviewDecision(resources, user, decision)} :
                /\ Writes(out)
                /\ Len(review_steps) + PendingSteps + Len(out.steps) <= MaxConcSteps
                /\ txn' = [txn EXCEPT ![t] = Started("decide", user, decision, NoForm, out)]
    /\ UNCHANGED <<tables, last>>

\* UploadNewVersionView up to "file is required": the row is read and the
\* guards pass on it.
UploadBegin(t) ==
    /\ Free(t)
    /\ Len(versions) + PendingVersions < MaxConcVersions
    /\ \E user \in User, req \in ConcUploadForms :
         \E out \in {UploadNewVersion(resources, <<>>, user, req)} :
            /\ out.insert # <<>>
            /\ txn' = [txn EXCEPT ![t] =
                          [Started("upload", user, "NULL", req, out)
                              EXCEPT !.pc = "begun"]]
    /\ UNCHANGED <<tables, last>>

\* The query for the latest version: it sees the rows committed by now, and
\* the rest of the view is computed from them.
UploadQuery(t) ==
    /\ txn[t].pc = "begun"
    /\ txn' = [txn EXCEPT ![t].pc = "insert",
                          ![t].out = UploadNewVersion(txn[t].snap, versions,
                                                      txn[t].user, txn[t].req)]
    /\ UNCHANGED <<tables, last>>

\* Another request holds an uncommitted row with the same version_number:
\* the INSERT waits for that transaction to end.
InsertWaits(t) ==
    \E u \in Txns \ {t} :
        /\ txn[u].pc = "ready"
        /\ txn[u].out.insert # <<>>
        /\ txn[u].out.insert[1].version_number = txn[t].out.insert[1].version_number

\* KnowledgeResourceVersion.objects.create in the view: the unique index is
\* checked against the committed rows.
UploadInsert(t) ==
    /\ txn[t].pc = "insert"
    /\ ~InsertWaits(t)
    /\ \E out \in {Constrained(versions, txn[t].out)} :
         txn' = [txn EXCEPT ![t] = IF Writes(out)
                                   THEN [txn[t] EXCEPT !.pc = "ready"]
                                   ELSE Answered(t, out)]
    /\ UNCHANGED <<tables, last>>

\* The atomic block ends: the writes of the view reach the tables.
TxnCommit(t) ==
    /\ txn[t].pc = "ready"
    /\ Write(txn[t].out)
    /\ txn' = [txn EXCEPT ![t] = Answered(t, txn[t].out)]
    /\ UNCHANGED last

\* The response has been delivered.
TxnEnd(t) ==
    /\ txn[t].pc = "done"
    /\ txn' = [txn EXCEPT ![t] = IdleTxn]
    /\ UNCHANGED <<tables, last>>

\* The create view runs in autocommit: the resource row (with its tags) is
\* committed by the first statement, ...
CreateRow(t) ==
    /\ Free(t)
    /\ resources = {}
    /\ \E user \in Creators, req \in CreateForms :
         \E out \in {KnowledgeResourceUpload(user, req)} :
            /\ out.create
            /\ resources' = {[out.obj EXCEPT !.latest_version = NoVersion]}
            /\ txn' = [txn EXCEPT ![t] =
                          IF out.insert = <<>>
                          THEN [pc |-> "done", op |-> "create", user |-> user.id,
                                seen |-> 0, code |-> out.code, detail |-> out.detail]
                          ELSE [Started("create", user, "NULL", req, out)
                                   EXCEPT !.pc = "row"]]
    /\ UNCHANGED <<versions, review_steps, ai_flags, last>>

\* ... version 1 by the second (IntegrityError ends the view), ...
CreateV1(t) ==
    /\ txn[t].pc = "row"
    /\ ~InsertWaits(t)
    /\ \E out \in {Constrained(versions, txn[t].out)} :
         /\ versions' = versions \o out.insert
         /\ txn' = [txn EXCEPT ![t] = IF out.insert = <<>>
                                      THEN Answered(t, out)
                                      ELSE [txn[t] EXCEPT !.pc = "v1"]]
    /\ UNCHANGED <<resources, review_steps, ai_flags, last>>

\* ... and resource.save(update_fields=["latest_version"]) by the third.
CreateSave(t) ==
    /\ txn[t].pc = "v1"
    /\ resources' = WriteResource(resources,
                        [txn[t].out EXCEPT !.create = FALSE,
                                           !.fields = {"latest_version"}])
    /\ txn' = [txn EXCEPT ![t] = Answered(t, txn[t].out)]
    /\ UNCHANGED <<versions, review_steps, ai_flags, last>>

ConcNext ==
    \E t \in Txns :
        \/ TxnBegin(t)
        \/ UploadBegin(t)
        \/ UploadQuery(t)
        \/ UploadInsert(t)
        \/ TxnCommit(t)
        \/ TxnEnd(t)
        \/ CreateRow(t)
        \/ CreateV1(t)
        \/ CreateSave(t)

ConcSpec == Init /\ [][ConcNext]_vars

----------------------------------------------------------------------------
(* PublishSpec: publish, unpublish and upload, two requests at a time, on  *)
(* a resource that the Council has approved.                               *)

\* The tables after the employee created and submitted a resource and the
\* Champion, the Officer and the Council approved it, computed by the views.
ApprovedTables ==
    LET user(id) == CHOOSE u \in User : u.id = id
        form == Form("ok", {TitleDraft}, {<<"x">>}, Absent, Absent, <<>>)
        c  == KnowledgeResourceUpload(user("emp"), form)
        r0 == {c.obj}
        s  == SubmitForReview(r0, user("emp"))
        r1 == WriteResource(r0, s)
        a1 == ReviewDecision(r1, user("champ"), "APPROVED")
        r2 == WriteResource(r1, a1)
        a2 == ReviewDecision(r2, user("officer"), "APPROVED")
        r3 == WriteResource(r2, a2)
        a3 == ReviewDecision(r3, user("council"), "APPROVED")
        r4 == WriteResource(r3, a3)
    IN  [resources |-> r4, versions |-> c.insert,
         review_steps |-> s.steps \o a1.steps \o a2.steps \o a3.steps,
         ai_flags |-> s.flags]

PublishInit ==
    /\ resources = ApprovedTables.resources
    /\ versions = ApprovedTables.versions
    /\ review_steps = ApprovedTables.review_steps
    /\ ai_flags = ApprovedTables.ai_flags
    /\ last = NoRequest
    /\ txn = [t \in Txns |-> IdleTxn]

\* The publish or the unpublish view reads the row and computes its writes.
PublishBegin(t) ==
    /\ Free(t)
    /\ Len(review_steps) + PendingSteps < MaxPublishRaceSteps
    /\ \E user \in User :
         \/ \E out \in {PublishResource(resources, user)} :
              /\ Writes(out)
              /\ txn' = [txn EXCEPT ![t] = Started("publish", user, "NULL", NoForm, out)]
         \/ \E out \in {UnpublishResource(resources, user)} :
              /\ Writes(out)
              /\ txn' = [txn EXCEPT ![t] = Started("unpublish", user, "NULL", NoForm, out)]
    /\ UNCHANGED <<tables, last>>

PublishNext ==
    \E t \in Txns :
        \/ PublishBegin(t)
        \/ UploadBegin(t)
        \/ UploadQuery(t)
        \/ UploadInsert(t)
        \/ TxnCommit(t)
        \/ TxnEnd(t)

PublishSpec == PublishInit /\ [][PublishNext]_vars

----------------------------------------------------------------------------
(* Properties.                                                             *)

UserOf(id) == CHOOSE u \in User : u.id = id

\* The role that reviews at a stage.
StageRole(stage) ==
    CASE stage = "CHAMPION" -> "CHAMPION"
      [] stage = "REGIONAL_OFFICER" -> "OFFICER"
      [] stage = "GOV_COUNCIL" -> "COUNCIL"

\* This step serves a request to the view op.
Serves(op) == last = NoRequest /\ last'.op = op

\* C1: submitted_version is non-null if and only if status = PendingReview,
\* in every state reached by create / submit / decide / uploadNewVersion /
\* publish / unpublish.
C1_LockInvariant ==
    \A r \in resources :
        (r.submitted_version # NoVersion) <=> (r.status = "PENDING_REVIEW")

\* C2: of two decide calls that judged the same state of a PendingReview
\* resource (each read it before the other committed), at most one succeeds.
C2_SingleWriter ==
    ~(/\ txn[1].pc = "done" /\ txn[2].pc = "done"
      /\ txn[1].op = "decide" /\ txn[2].op = "decide"
      /\ txn[1].seen = txn[2].seen
      /\ txn[1].code = 200 /\ txn[2].code = 200)

\* C3: the persisted version numbers of the resource are exactly 1..N, with
\* no duplicate and no gap, also when uploads interleave between reading
\* the maximum and inserting.
C3_VersionMonotonicity ==
    /\ {versions[i].version_number : i \in 1..Len(versions)} = 1..Len(versions)
    /\ \A i, j \in 1..Len(versions) :
          versions[i].version_number = versions[j].version_number => i = j

\* Two uploads computed the same next number; one committed it and the
\* other was refused by the unique index.
C3_Witness ==
    /\ Len(versions) >= 2
    /\ \E t \in Txns : /\ txn[t].pc = "done"
                       /\ txn[t].op = "upload"
                       /\ txn[t].detail = "IntegrityError"

\* C4: latest_version points to the persisted version with the greatest
\* version_number, after every uploadNewVersion call, successful or not.
C4_LatestIsMax ==
    \A r \in resources : r.latest_version = LatestNumber(versions)

\* C5: a decide succeeds only on a PendingReview resource and for the role
\* of its current stage; every other decide fails with 400 or 403 and
\* changes no table.
C5_Authorized(rows, user) ==
    \E r \in rows : /\ r.status = "PENDING_REVIEW"
                    /\ user.role = StageRole(r.current_stage)

C5_StageAuthorization ==
    [][ (Serves("decide") /\ resources # {}) =>
            /\ last'.code = 200 => C5_Authorized(resources, UserOf(last'.user))
            /\ ~C5_Authorized(resources, UserOf(last'.user)) =>
                  /\ last'.code \in {400, 403}
                  /\ UNCHANGED tables ]_vars

\* The Admin was refused at the GovCouncil stage.
C5_Witness ==
    /\ last.op = "decide" /\ last.user = "admin" /\ last.code = 403
    /\ \E r \in resources : /\ r.status = "PENDING_REVIEW"
                            /\ r.current_stage = "GOV_COUNCIL"

\* C6: an approval moves Champion -> RegionalOfficer -> GovCouncil ->
\* Approved, one stage at a time; and when a resource becomes Approved its
\* ledger holds, after the most recent Submitted step, Approved steps at
\* Champion, RegionalOfficer and GovCouncil in that order, all bound to the
\* version of that Submitted step.
C6_ApprovedInOrder(steps) ==
    \E s \in 1..Len(steps) :
        /\ steps[s].decision = "SUBMITTED"
        /\ \A k \in (s + 1)..Len(steps) : steps[k].decision # "SUBMITTED"
        /\ \E a, b, c \in (s + 1)..Len(steps) :
            /\ a < b /\ b < c
            /\ steps[a] = [steps[a] EXCEPT !.version = steps[s].version,
                              !.stage = "CHAMPION", !.decision = "APPROVED"]
            /\ steps[b] = [steps[b] EXCEPT !.version = steps[s].version,
                              !.stage = "REGIONAL_OFFICER", !.decision = "APPROVED"]
            /\ steps[c] = [steps[c] EXCEPT !.version = steps[s].version,
                              !.stage = "GOV_COUNCIL", !.decision = "APPROVED"]

C6_ApprovalOrdering ==
    [][ /\ (Serves("decide") /\ last'.decision = "APPROVED" /\ last'.code = 200) =>
            \E r \in resources : \E q \in resources' :
                /\ r.status = "PENDING_REVIEW"
                /\ r.current_stage = "CHAMPION" =>
                      q.status = "PENDING_REVIEW" /\ q.current_stage = "REGIONAL_OFFICER"
                /\ r.current_stage = "REGIONAL_OFFICER" =>
                      q.status = "PENDING_REVIEW" /\ q.current_stage = "GOV_COUNCIL"
                /\ r.current_stage = "GOV_COUNCIL" => q.status = "APPROVED"
        /\ ((\E q \in resources' : q.status = "APPROVED")
            /\ ~(\E r \in resources : r.status = "APPROVED")) =>
                C6_ApprovedInOrder(review_steps') ]_vars

\* The Council's approval has made the resource Approved.
C6_Witness ==
    /\ last.op = "decide" /\ last.decision = "APPROVED" /\ last.code = 200
    /\ \E r \in resources : r.status = "APPROVED"

\* C7: an accepted Rejected, Flagged or ChangesRequested decision stores
\* Rejected, Flagged or Draft, clears submitted_version, appends exactly one
\* step with that decision, and keeps current_stage.
C7_ClosingDecision ==
    [][ (Serves("decide") /\ last'.code = 200
         /\ last'.decision \in {"REJECTED", "FLAGGED", "CHANGES_REQUESTED"}) =>
            \E r \in resources : \E q \in resources' :
                /\ r.status = "PENDING_REVIEW"
                /\ q.status = (CASE last'.decision = "REJECTED" -> "REJECTED"
                                 [] last'.decision = "FLAGGED" -> "FLAGGED"
                                 [] last'.decision = "CHANGES_REQUESTED" -> "DRAFT")
                /\ q.submitted_version = NoVersion
                /\ q.current_stage = r.current_stage
                /\ Len(review_steps') = Len(review_steps) + 1
                /\ review_steps'[Len(review_steps')].decision = last'.decision
                /\ review_steps'[Len(review_steps')].stage = r.current_stage
                /\ SubSeq(review_steps', 1, Len(review_steps)) = review_steps ]_vars

\* The Officer has requested changes: Draft, still at the Officer's stage.
C7_Witness ==
    /\ last.op = "decide" /\ last.decision = "CHANGES_REQUESTED" /\ last.code = 200
    /\ \E r \in resources : /\ r.status = "DRAFT"
                            /\ r.current_stage = "REGIONAL_OFFICER"
                            /\ r.submitted_version = NoVersion

\* C8: a submit by the uploader fails (400) with the invalid-state messages
\* when the status is PendingReview, Approved or Published, and with the
\* missing-version message when latest_version is null; otherwise it stores
\* PendingReview at Champion, locks submitted_version := latest_version and
\* appends one Submitted step at Champion bound to that version.
C8_Submit ==
    [][ Serves("submit") =>
          \A r \in resources :
            r.uploaded_by = last'.user =>
              IF r.status \in {"PENDING_REVIEW", "APPROVED", "PUBLISHED"}
              THEN /\ last'.code = 400
                   /\ last'.detail \in {"Already submitted for review.",
                                        "Cannot submit approved/published resources."}
                   /\ UNCHANGED tables
              ELSE IF r.latest_version = NoVersion
              THEN /\ last'.code = 400
                   /\ last'.detail = "No file version uploaded yet. Upload a version first."
                   /\ UNCHANGED tables
              ELSE /\ last'.code = 200
                   /\ \E q \in resources' :
                        /\ q.status = "PENDING_REVIEW"
                        /\ q.current_stage = "CHAMPION"
                        /\ q.submitted_version = r.latest_version
                   /\ review_steps' =
                        Append(review_steps,
                               ReviewStep(r.latest_version, "CHAMPION",
                                          "SUBMITTED", r.uploaded_by)) ]_vars

\* C9: no publish on an Approved or Unpublished resource by its uploader, a
\* Council member or an Admin is refused (a refused publish leaves the
\* resource as it was, so the state after the refusal shows the case).
C9_Publish ==
    (last.op = "publish" /\ last.code # 200) =>
        ~\E r \in resources :
            /\ r.status \in {"APPROVED", "UNPUBLISHED"}
            /\ \/ r.uploaded_by = last.user
               \/ UserOf(last.user).role \in {"COUNCIL", "ADMIN"}

\* C10: no unpublish on a Published resource by a Council member or an
\* Admin is refused.
C10_Unpublish ==
    (last.op = "unpublish" /\ last.code # 200) =>
        ~\E r \in resources :
            /\ r.status = "PUBLISHED"
            /\ UserOf(last.user).role \in {"COUNCIL", "ADMIN"}

\* The workflow views other than create.
Transitions == {"submit", "decide", "upload", "publish", "unpublish"}

\* C11: an upload by the uploader with a file is refused as an invalid
\* state if and only if the status is PendingReview or Published; without a
\* file it is refused (400).
C11_UploadStatus ==
    [][ Serves("upload") =>
          \A r \in resources :
            r.uploaded_by = last'.user =>
              /\ last'.req.file = "ok" =>
                   ((last'.detail = "Cannot upload a new version while resource is in review/published.")
                      <=> r.status \in {"PENDING_REVIEW", "PUBLISHED"})
              /\ last'.req.file = "absent" => last'.code = 400 ]_vars

\* C12: every successful upload leaves status = Draft, current_stage =
\* Champion, submitted_version = null and latest_version = the new version,
\* numbered previous maximum + 1.
C12_ResetOnReupload ==
    [][ (Serves("upload") /\ last'.code = 201) =>
          /\ versions' = Append(versions,
                                KnowledgeResourceVersion(LatestNumber(versions) + 1,
                                                         last'.user))
          /\ \A q \in resources' :
                /\ q.status = "DRAFT"
                /\ q.current_stage = "CHAMPION"
                /\ q.submitted_version = NoVersion
                /\ q.latest_version = LatestNumber(versions) + 1 ]_vars

\* A version approved by the Council was replaced: the resource is back at
\* the Champion's stage with version 2.
C12_Witness ==
    /\ last.op = "upload" /\ last.code = 201
    /\ review_steps # <<>>
    /\ review_steps[Len(review_steps)].stage = "GOV_COUNCIL"
    /\ review_steps[Len(review_steps)].decision = "APPROVED"
    /\ \E r \in resources : /\ r.status = "DRAFT"
                            /\ r.current_stage = "CHAMPION"
                            /\ r.latest_version = 2

\* C13: when the flag generator raises during a submit whose guards pass,
\* the submit stands: PendingReview at Champion, submitted_version locked,
\* the Submitted step recorded, and no flag produced.
C13_GeneratorFailure ==
    [][ Serves("submit") =>
          \A r \in resources :
            (/\ r.uploaded_by = last'.user
             /\ r.status \notin {"PENDING_REVIEW", "APPROVED", "PUBLISHED"}
             /\ r.latest_version # NoVersion
             /\ AiCheckRaises(r)) =>
                /\ \A q \in resources' :
                      /\ q.status = "PENDING_REVIEW"
                      /\ q.current_stage = "CHAMPION"
                      /\ q.submitted_version = r.latest_version
                /\ review_steps' =
                      Append(review_steps,
                             ReviewStep(r.latest_version, "CHAMPION",
                                        "SUBMITTED", r.uploaded_by))
                /\ ai_flags' = ai_flags ]_vars

\* C14: a submit, decide, upload, publish or unpublish that returns an
\* error leaves the resource, its versions, its ledger and its flags as
\* they were.
C14_NoPartialWrites ==
    [][ (\E op \in Transitions : Serves(op)) /\ last'.code \notin {200, 201}
          => UNCHANGED tables ]_vars

\* C15: every successful submit, decide, upload, publish or unpublish
\* appends exactly one ReviewStep, and a ReviewStep is appended only by a
\* successful transition, together with its change of the resource.
C15_OneStepPerTransition ==
    [][ /\ ((\E op \in Transitions : Serves(op)) /\ last'.code \in {200, 201}) =>
            /\ Len(review_steps') = Len(review_steps) + 1
            /\ SubSeq(review_steps', 1, Len(review_steps)) = review_steps
        /\ review_steps' # review_steps =>
            /\ \E op \in Transitions : Serves(op)
            /\ last'.code \in {200, 201}
            /\ resources' # resources ]_vars

\* C17: the region of a resource is the region of its uploader's profile
\* (a region in the create form is ignored, and a profile without a region
\* creates nothing), and no later operation changes it.
C17_RegionFixed ==
    [][ /\ Serves("create") =>
            /\ \A q \in resources' : q.region = UserOf(last'.user).region
            /\ UserOf(last'.user).region = NoRegion => resources' = {}
        /\ \A r \in resources : \A q \in resources' : q.region = r.region ]_vars

\* The flags that the step appended.
NewFlags == SubSeq(ai_flags', Len(ai_flags) + 1, Len(ai_flags'))

\* C18: flags are created by a successful submit and by nothing else, each
\* bound to the version that submit locked and no finding reported twice;
\* no operation removes or edits a flag.
C18_FlagsAtSubmit ==
    [][ /\ Len(ai_flags') >= Len(ai_flags)
        /\ SubSeq(ai_flags', 1, Len(ai_flags)) = ai_flags
        /\ ai_flags' # ai_flags => Serves("submit") /\ last'.code = 200
        /\ (Serves("submit") /\ last'.code = 200) =>
              \A q \in resources' :
                /\ q.submitted_version # NoVersion
                /\ \A i \in 1..Len(NewFlags) :
                      /\ NewFlags[i].version = q.submitted_version
                      /\ \A j \in 1..Len(NewFlags) :
                            NewFlags[i] = NewFlags[j] => i = j ]_vars

\* The second version was submitted: the flags of version 1 are still
\* there, next to those of version 2.
C18_Witness ==
    /\ last.op = "submit" /\ last.code = 200
    /\ \E i, j \in 1..Len(ai_flags) :
          ai_flags[i].version = 1 /\ ai_flags[j].version = 2
    /\ \E r \in resources : r.submitted_version = 2

\* C20: between two Submitted steps of the ledger there is a decision
\* (Approved, Rejected, Flagged or ChangesRequested), also when two submits
\* of the same Draft resource overlap.
C20_OneActiveSubmission ==
    \A i, j \in 1..Len(review_steps) :
        (/\ i < j
         /\ review_steps[i].decision = "SUBMITTED"
         /\ review_steps[j].decision = "SUBMITTED") =>
            \E k \in (i + 1)..(j - 1) :
                review_steps[k].decision \in DecisionChoices

\* The stage whose queue a reviewer's role is shown.
QueueStage(role) ==
    CASE role = "CHAMPION" -> "CHAMPION"
      [] role = "OFFICER" -> "REGIONAL_OFFICER"
      [] role \in {"COUNCIL", "ADMIN"} -> "GOV_COUNCIL"

\* C16: the queue of a reviewer holds the PendingReview resources at the
\* reviewer's stage; for a Champion or an Officer only those of the
\* reviewer's region or Global (only Global without a region), for the
\* Council and the Admin those of all regions; the query changes no table.
C16_RegionRouting ==
    [][ Serves("queue") =>
          LET u == UserOf(last'.user) IN
          /\ UNCHANGED tables
          /\ u.role \in {"CHAMPION", "OFFICER", "COUNCIL", "ADMIN"} =>
               last'.queue =
                 { r.id : r \in
                     { r \in resources :
                         /\ r.status = "PENDING_REVIEW"
                         /\ r.current_stage = QueueStage(u.role)
                         /\ u.role \in {"CHAMPION", "OFFICER"} =>
                               \/ r.region = "GLOBAL"
                               \/ u.region # NoRegion /\ r.region = u.region } }
          /\ u.role = "EMPLOYEE" => last'.queue = {} ]_vars

\* The Champion of region EU asked for the queue while a resource of
\* region NA was pending at the Champion's stage: the queue is empty.
C16_Witness ==
    /\ last.op = "queue" /\ last.user = "champ" /\ last.code = 200
    /\ last.queue = {}
    /\ UserOf("champ").region = "EU"
    /\ \E r \in resources : /\ r.status = "PENDING_REVIEW"
                            /\ r.current_stage = "CHAMPION"
                            /\ r.region = "NA"

\* The findings the flag generator reports on a resource, one pair of
\* flag type and severity each.
C19_Findings(r) ==
    { f \in {<<"OUTDATED", "HIGH">>, <<"METADATA", "MEDIUM">>,
             <<"METADATA", "HIGH">>, <<"QUALITY", "LOW">>} :
        \/ /\ f = <<"OUTDATED", "HIGH">>
           /\ \/ Contains(lower(r.title), <<"d", "r", "a", "f", "t">>)
              \/ Contains(lower(r.title), <<"v", "0">>)
        \/ f = <<"METADATA", "MEDIUM">> /\ r.tags = {}
        \/ f = <<"METADATA", "HIGH">> /\ "confidentiality" \notin r.metadata.keys
        \/ /\ f = <<"QUALITY", "LOW">>
           /\ Len(strip(r.description)) \in 1..29 }

\* The submit request being served passes the guards of the submit
\* operation, so the flag generator runs on resource r.
C19_Runs(r) ==
    /\ Serves("submit")
    /\ last'.user = r.uploaded_by
    /\ r.status \in {"DRAFT", "REJECTED", "FLAGGED"}
    /\ r.latest_version # NoVersion

\* C19: the flags the generator produces are a function of the content:
\* one Outdated/High flag iff the lower-cased title contains "draft" or
\* "v0", one Metadata/Medium flag iff there are no tags, one Metadata/High
\* flag iff the metadata has no "confidentiality" key, one Quality/Low flag
\* iff the trimmed description has 1 to 29 characters, nothing else, and
\* each is bound to the version submitted.
C19_RunChecks ==
    [][ \A r \in resources :
          C19_Runs(r) =>
            /\ { <<NewFlags[i].flag_type, NewFlags[i].severity>> :
                   i \in 1..Len(NewFlags) } = C19_Findings(r)
            /\ Len(NewFlags) = Cardinality(C19_Findings(r))
            /\ \A i \in 1..Len(NewFlags) :
                 NewFlags[i].version = r.latest_version ]_vars

\* C21: a resource is never PendingReview with a submitted_version other
\* than its latest_version, also when a submit and an upload of a new
\* version of the same Draft resource overlap.
C21_SubmitUploadSerialized ==
    \A r \in resources :
        r.status = "PENDING_REVIEW" => r.submitted_version = r.latest_version

\* C22: a submit or an upload by anyone but the uploader of the resource
\* fails and leaves the resource, its versions and its ledger unchanged;
\* no operation changes the uploader of a resource.
C22_UploaderOnly ==
    [][ /\ (Serves("submit") \/ Serves("upload")) =>
            \A r \in resources :
                r.uploaded_by # last'.user =>
                    /\ last'.code \notin {200, 201}
                    /\ UNCHANGED tables
        /\ \A r \in resources : \A q \in resources' :
                q.uploaded_by = r.uploaded_by ]_vars

\* The Council sent a new version of the employee's Draft resource and was
\* refused.
C22_Witness ==
    /\ last.op = "upload" /\ last.user = "council" /\ last.req.file = "ok"
    /\ last.code = 404
    /\ \E r \in resources : r.status = "DRAFT" /\ r.uploaded_by = "emp"

\* C23: a submit succeeds only on a Draft resource, so a Rejected or
\* Flagged resource becomes PendingReview again only after an upload of a
\* new version has put it back in Draft.
C23_ResubmitNeedsUpload ==
    [][ /\ (Serves("submit") /\ last'.code = 200) =>
            \A r \in resources : r.status = "DRAFT"
        /\ \A r \in resources : \A q \in resources' :
            (r.status \in {"REJECTED", "FLAGGED"} /\ q.status # r.status) =>
                /\ Serves("upload")
                /\ q.status = "DRAFT"
                /\ q.latest_version > r.latest_version ]_vars

\* C27: a delete succeeds only for the uploader of the resource with the
\* Employee role and a status other than PendingReview, Approved and
\* Published, and then removes the resource with all its versions, review
\* steps and flags; a refused delete (403 or 400) removes nothing.
C27_Delete ==
    [][ Serves("delete") =>
          \A r \in resources :
            IF /\ r.uploaded_by = last'.user
               /\ UserOf(last'.user).role = "EMPLOYEE"
               /\ r.status \notin {"PENDING_REVIEW", "APPROVED", "PUBLISHED"}
            THEN /\ last'.code = 204
                 /\ resources' = {}
                 /\ versions' = <<>>
                 /\ review_steps' = <<>>
                 /\ ai_flags' = <<>>
            ELSE /\ last'.code \in {400, 403}
                 /\ UNCHANGED tables ]_vars

\* The employee's delete was served with 204 (only a delete of an
\* existing resource is) and no row of any table is left.
C27_Witness ==
    /\ last.op = "delete" /\ last.user = "emp" /\ last.code = 204
    /\ resources = {} /\ versions = <<>> /\ review_steps = <<>>
    /\ ai_flags = <<>>

\* C24: versions and review steps are append-only: a submit, decide,
\* upload, publish or unpublish leaves every existing Version and
\* ReviewStep as it is (each step keeps its version), and the two tables
\* only grow.
C24_AppendOnly ==
    [][ /\ Len(versions') >= Len(versions)
        /\ SubSeq(versions', 1, Len(versions)) = versions
        /\ Len(review_steps') >= Len(review_steps)
        /\ SubSeq(review_steps', 1, Len(review_steps)) = review_steps ]_vars

\* Version 2 was uploaded after a review of version 1: version 1 and the
\* steps bound to it are still there.
C24_Witness ==
    /\ last.op = "upload" /\ last.code = 201
    /\ Len(versions) = 2
    /\ versions[1].version_number = 1 /\ versions[2].version_number = 2
    /\ Len(review_steps) >= 2
    /\ \A i \in 1..Len(review_steps) : review_steps[i].version = 1

\* C25: a successful upload replaces the tag set only if tags are
\* supplied, and then by exactly the normalized (lower-cased,
\* whitespace-collapsed, non-empty) supplied tags; without tags in the
\* request the tag set of the resource stays as it was.
C25_TagReplacement ==
    [][ (Serves("upload") /\ last'.code = 201) =>
          \A r \in resources : \A q \in resources' :
            IF last'.req.tags = <<>>
            THEN q.tags = r.tags
            ELSE q.tags = TagObjs(ParseTagsFromRequest(last'.req.tags).list) ]_vars

\* C26: whenever a resource is Published, the ledger holds an Approved step
\* at the GovCouncil stage for its latest_version, whatever the uploads,
\* publishes and unpublishes that were sent.
C26_PublicationSafety ==
    \A r \in resources :
        r.status = "PUBLISHED" =>
            \E i \in 1..Len(review_steps) :
                /\ review_steps[i].decision = "APPROVED"
                /\ review_steps[i].stage = "GOV_COUNCIL"
                /\ review_steps[i].version = r.latest_version

\* C28: every resource in the queue shown to a reviewer is one on which a
\* decision by that reviewer passes the role check of the decision view;
\* so for the Admin, who is shown the queue of the GovCouncil stage.
C28_QueueImpliesAuthority ==
    [][ Serves("queue") =>
          \A r \in resources :
            r.id \in last'.queue =>
              ReviewDecision(resources, UserOf(last'.user), "APPROVED").code # 403 ]_vars

\* C29: a decision by a Champion or an Officer succeeds only on a resource
\* of that reviewer's queue, that is, of the reviewer's region or Global.
C29_AuthorityImpliesQueue ==
    [][ (/\ Serves("decide")
         /\ last'.code = 200
         /\ UserOf(last'.user).role \in {"CHAMPION", "OFFICER"}) =>
            \A r \in resources :
                /\ r.id \in ReviewQueue(resources, UserOf(last'.user)).queue
                /\ \/ r.region = "GLOBAL"
                   \/ r.region = UserOf(last'.user).region ]_vars

\* C30: an Approved, Published or Unpublished resource is at the GovCouncil
\* stage; a Draft resource whose latest version has not been submitted
\* (freshly created or freshly re-uploaded) is at the Champion stage; and
\* every Published and Unpublished step of the ledger carries the
\* GovCouncil stage.
C30_StageStatusConsistency ==
    /\ \A r \in resources :
        /\ r.status \in {"APPROVED", "PUBLISHED", "UNPUBLISHED"} =>
              r.current_stage = "GOV_COUNCIL"
        /\ (/\ r.status = "DRAFT"
            /\ ~\E i \in 1..Len(review_steps) :
                  /\ review_steps[i].decision = "SUBMITTED"
                  /\ review_steps[i].version = r.latest_version) =>
              r.current_stage = "CHAMPION"
    /\ \A i \in 1..Len(review_steps) :
        review_steps[i].decision \in {"PUBLISHED", "UNPUBLISHED"} =>
            review_steps[i].stage = "GOV_COUNCIL"

====
